---------------------------- MODULE Spec2Model ----------------------------
(***************************************************************************)
(* A model of bot4.py: validated fields (Field, Name, Phone, Birthday),    *)
(* the contact Record and the AddressBook collection with search,          *)
(* pagination and pickle persistence.                                      *)
(*                                                                         *)
(* A Python str is a sequence of characters, each character a string: an   *)
(* ASCII character is itself, a character outside ASCII is named by its    *)
(* code point ("<U+00B2>" is the superscript two).  The value of a         *)
(* Phone field is a str or the sentinel None.  The value of a Birthday     *)
(* field is a tagged record: None, a str, or a datetime.date object.       *)
(* The alphabet of the model is ASCII and the characters named below.      *)
(* An exception is an outcome: "ok", "ValueError", "TypeError",            *)
(* "AttributeError", "KeyError", "StopIteration".                          *)
(***************************************************************************)
EXTENDS Integers, Sequences, FiniteSets, TLC

VARIABLES
  rec,         \* the Record object the caller holds
  data,        \* AddressBook.data: the dict, as the sequence of its values in key order
  fs,          \* the file system: path -> pickled bytes, or Absent
  iter_set,    \* whether __iter__ has created _iter_index, _page_size, _keys
  iter_index,  \* AddressBook._iter_index
  page_size,   \* AddressBook._page_size
  keys,        \* AddressBook._keys
  last,        \* the last call: its name, arguments, outcome, result and the state before it
  saved,       \* history: path -> the dict most recently saved there, and whether
               \*          that save replaced a file holding something else
  got,         \* history: consumer -> the pages it received since it last called iter
  done,        \* history: consumer -> it received StopIteration since it last called iter
  begun,       \* history: consumer -> it has called iter
  stale,       \* history: consumer -> it was part-way when the other consumer began
               \*          the pagination that consumer is now in
  mixed,       \* history: consumer -> another consumer called iter or next since its iter
  mutated,     \* history: the paginated collection has had an add or remove call
  handed       \* history: number of pages handed out since the latest iter

vars == <<rec, data, fs, iter_set, iter_index, page_size, keys, last, saved,
          got, done, begun, stale, mixed, mutated, handed>>

---------------------------------------------------------------------------
(* Bounds of the model *)

MaxPhones == 2

MaxRecords == 12

MaxGot == 3

(* Program constants *)

PhoneLen == 10

DefaultPageSize == 5

---------------------------------------------------------------------------
(* Python strings *)

DigitChars == <<"0", "1", "2", "3", "4", "5", "6", "7", "8", "9">>

Digits == {DigitChars[i] : i \in 1..10}

\* characters of category Nd outside ASCII: ARABIC-INDIC DIGIT THREE, FULLWIDTH DIGIT NINE
WideDecimals == {"<U+0663>", "<U+FF19>"}

\* the characters the regular expression \d matches, and int() converts
DecimalChars == Digits \cup WideDecimals

\* characters str.isdigit() accepts that are no decimals: superscript 1, 2, 3
SuperDigits == {"<U+00B9>", "<U+00B2>", "<U+00B3>"}

DigitVal(c) ==
  CASE c = "<U+0663>" -> 3
    [] c = "<U+FF19>" -> 9
    [] OTHER -> (CHOOSE i \in 1..10 : DigitChars[i] = c) - 1

Rep(c, n) == [i \in 1..n |-> c]

None == <<"<None>">>

NoneStr == <<"N", "o", "n", "e">>

\* str.isdigit(): non-empty and every character a digit, decimal or not
isdigit(s) ==
  Len(s) > 0 /\ \A i \in 1..Len(s) : s[i] \in DecimalChars \cup SuperDigits

isinstance_str(value) == value # None

UpperLetters ==
  <<"A", "B", "C", "D", "E", "F", "G", "H", "I", "J", "K", "L", "M",
    "N", "O", "P", "Q", "R", "S", "T", "U", "V", "W", "X", "Y", "Z">>

LowerLetters ==
  <<"a", "b", "c", "d", "e", "f", "g", "h", "i", "j", "k", "l", "m",
    "n", "o", "p", "q", "r", "s", "t", "u", "v", "w", "x", "y", "z">>

\* str.lower() of one character, a str: the 26 ASCII capitals, E WITH ACUTE,
\* and I WITH DOT ABOVE, which becomes i followed by COMBINING DOT ABOVE
LowerChar(c) ==
  IF \E i \in 1..26 : UpperLetters[i] = c
  THEN <<LowerLetters[CHOOSE i \in 1..26 : UpperLetters[i] = c]>>
  ELSE CASE c = "<U+00C9>" -> <<"<U+00E9>">>
         [] c = "<U+0130>" -> <<"i", "<U+0307>">>
         [] OTHER -> <<c>>

\* str.lower()
RECURSIVE lower(_)
lower(s) == IF s = <<>> THEN <<>> ELSE LowerChar(Head(s)) \o lower(Tail(s))

\* the `in` operator on two str: q is a substring of s
Contains(q, s) ==
  \E i \in 0..(Len(s) - Len(q)) : \A j \in 1..Len(q) : s[i + j] = q[j]

\* truth value of a str or None
Truthy(value) == value # None /\ value # <<>>

---------------------------------------------------------------------------
(* datetime *)

IsLeap(y) == (y % 4 = 0 /\ y % 100 # 0) \/ y % 400 = 0

DaysInMonth(y, m) ==
  CASE m \in {1, 3, 5, 7, 8, 10, 12} -> 31
    [] m \in {4, 6, 9, 11} -> 30
    [] OTHER -> IF IsLeap(y) THEN 29 ELSE 28

RECURSIVE DaysBeforeMonth(_, _)
DaysBeforeMonth(y, m) ==
  IF m <= 1 THEN 0 ELSE DaysBeforeMonth(y, m - 1) + DaysInMonth(y, m - 1)

DaysBeforeYear(y) ==
  (y - 1) * 365 + ((y - 1) \div 4) - ((y - 1) \div 100) + ((y - 1) \div 400)

\* datetime.date(y, m, d) exists
DateOk(y, m, d) ==
  y >= 1 /\ y <= 9999 /\ m \in 1..12 /\ d >= 1 /\ d <= DaysInMonth(y, m)

\* date.toordinal()
toordinal(y, m, d) == DaysBeforeYear(y) + DaysBeforeMonth(y, m) + d

Num(s) == IF Len(s) = 1 THEN DigitVal(s[1])
          ELSE IF s[1] = " " THEN DigitVal(s[2])
          ELSE 10 * DigitVal(s[1]) + DigitVal(s[2])

\* %m : 1[0-2] | 0[1-9] | [1-9]
MonthText(s) ==
  \/ Len(s) = 2 /\ s[1] = "1" /\ s[2] \in {"0", "1", "2"}
  \/ Len(s) = 2 /\ s[1] = "0" /\ s[2] \in Digits \ {"0"}
  \/ Len(s) = 1 /\ s[1] \in Digits \ {"0"}

\* %d : 3[01] | [12]\d | 0[1-9] | [1-9] | " "[1-9]
DayText(s) ==
  \/ Len(s) = 2 /\ s[1] = "3" /\ s[2] \in {"0", "1"}
  \/ Len(s) = 2 /\ s[1] \in {"1", "2"} /\ s[2] \in DecimalChars
  \/ Len(s) = 2 /\ s[1] \in {"0", " "} /\ s[2] \in Digits \ {"0"}
  \/ Len(s) = 1 /\ s[1] \in Digits \ {"0"}

Year4(s) ==
  1000 * DigitVal(s[1]) + 100 * DigitVal(s[2]) + 10 * DigitVal(s[3]) + DigitVal(s[4])

\* datetime.datetime.strptime(s, '%Y-%m-%d') on a str: whether it parses, and to what;
\* %Y is \d\d\d\d, which any decimal matches; %m and %d name ASCII digits
strptime(s) ==
  LET n == Len(s)
      fits(ml, dl) ==
        /\ n = 4 + 1 + ml + 1 + dl
        /\ \A i \in 1..4 : s[i] \in DecimalChars
        /\ s[5] = "-"
        /\ MonthText(SubSeq(s, 6, 5 + ml))
        /\ s[6 + ml] = "-"
        /\ DayText(SubSeq(s, 7 + ml, n))
      shapes == {sh \in {1, 2} \X {1, 2} : fits(sh[1], sh[2])}
  IN IF shapes = {} THEN [ok |-> FALSE, y |-> 0, m |-> 0, d |-> 0]
     ELSE LET sh == CHOOSE x \in shapes : TRUE
              y == Year4(SubSeq(s, 1, 4))
              m == Num(SubSeq(s, 6, 5 + sh[1]))
              d == Num(SubSeq(s, 7 + sh[1], n))
          IN [ok |-> DateOk(y, m, d), y |-> y, m |-> m, d |-> d]

---------------------------------------------------------------------------
(* Birthday values *)

NoneB == [kind |-> "none", chars |-> <<>>, y |-> 0, m |-> 0, d |-> 0]

BStr(s) == [kind |-> "str", chars |-> s, y |-> 0, m |-> 0, d |-> 0]

BDate(y, m, d) == [kind |-> "date", chars |-> <<>>, y |-> y, m |-> m, d |-> d]

\* truth value of a Birthday value: None and "" are false, a date object is true
TruthyB(b) == b.kind = "date" \/ (b.kind = "str" /\ b.chars # <<>>)

---------------------------------------------------------------------------
(* Field, Phone, Birthday *)

\* Field.__init__: stores the value as given, without calling validate
Field_init(value) == value

\* Field.__str__
str(value) == IF value = None THEN NoneStr ELSE value

\* Phone.validate: the outcome
Phone_validate(value) ==
  IF value # None /\ ~isinstance_str(value) THEN "ValueError"
  ELSE IF value # None /\ ~isdigit(value) THEN "ValueError"
  ELSE IF value # None /\ Len(value) # PhoneLen THEN "ValueError"
  ELSE "ok"

\* Birthday.validate: the outcome; strptime of a non-str raises TypeError,
\* which the except ValueError clause does not catch
Birthday_validate(b) ==
  IF b.kind = "none" THEN "ok"
  ELSE IF b.kind = "date" THEN "TypeError"
  ELSE IF strptime(b.chars).ok THEN "ok"
  ELSE "ValueError"

\* Field.set_value: validate, then assign; the stored value afterwards
set_value(outcome, old, new) == IF outcome = "ok" THEN new ELSE old

---------------------------------------------------------------------------
(* Record *)

\* Record.add_phone
add_phone(r, phone) == [r EXCEPT !.phones = Append(@, Field_init(phone))]

\* Record.__init__
Record_init(name, phone, birthday) ==
  LET r == [name |-> Field_init(name), phones |-> <<>>, birthday |-> Field_init(birthday)]
  IN IF Truthy(phone) THEN add_phone(r, phone) ELSE r

\* Record.remove_phone
remove_phone(r, phone) ==
  [r EXCEPT !.phones = SelectSeq(@, LAMBDA p : str(p) # phone)]

\* Record.edit_phone: the loop from entry i on; the first failing set_value ends the call
RECURSIVE edit_loop(_, _, _, _)
edit_loop(phones, i, old_phone, new_phone) ==
  IF i > Len(phones) THEN [outcome |-> "ok", phones |-> phones]
  ELSE IF str(phones[i]) = old_phone
       THEN LET o == Phone_validate(new_phone)
            IN IF o # "ok" THEN [outcome |-> o, phones |-> phones]
               ELSE edit_loop([phones EXCEPT ![i] = set_value(o, @, new_phone)],
                              i + 1, old_phone, new_phone)
       ELSE edit_loop(phones, i + 1, old_phone, new_phone)

edit_phone(r, old_phone, new_phone) == edit_loop(r.phones, 1, old_phone, new_phone)

\* Record.days_to_birthday: the outcome and the result (-1 stands for no integer)
days_to_birthday(r, today) ==
  LET b == r.birthday
      this == toordinal(today.y, b.m, b.d)
      now == toordinal(today.y, today.m, today.d)
  IN IF ~TruthyB(b) THEN [outcome |-> "ok", isNone |-> TRUE, days |-> -1]
     ELSE IF b.kind = "str"
          THEN [outcome |-> "AttributeError", isNone |-> FALSE, days |-> -1]
     ELSE IF ~DateOk(today.y, b.m, b.d)
          THEN [outcome |-> "ValueError", isNone |-> FALSE, days |-> -1]
     ELSE IF now > this
          THEN IF ~DateOk(today.y + 1, b.m, b.d)
               THEN [outcome |-> "ValueError", isNone |-> FALSE, days |-> -1]
               ELSE [outcome |-> "ok", isNone |-> FALSE,
                     days |-> toordinal(today.y + 1, b.m, b.d) - now]
     ELSE [outcome |-> "ok", isNone |-> FALSE, days |-> this - now]

---------------------------------------------------------------------------
(* AddressBook: the dict is a sequence of entries [key, value] in key order *)

Keys(d) == [i \in 1..Len(d) |-> d[i].key]

Values(d) == [i \in 1..Len(d) |-> d[i].value]

HasKey(d, k) == \E i \in 1..Len(d) : d[i].key = k

\* d[k], for a key the dict holds
Lookup(d, k) == d[CHOOSE i \in 1..Len(d) : d[i].key = k].value

\* AddressBook.add_record: self.data[record.name.get_value()] = record;
\* an existing key keeps its position, a new key goes last
add_record(d, record) ==
  LET k == record.name
  IN IF HasKey(d, k)
     THEN [i \in 1..Len(d) |-> IF d[i].key = k THEN [key |-> k, value |-> record] ELSE d[i]]
     ELSE Append(d, [key |-> k, value |-> record])

\* AddressBook.remove_record
remove_record(d, name) ==
  IF HasKey(d, name) THEN SelectSeq(d, LAMBDA e : e.key # name) ELSE d

\* a case-sensitive find_records_by_name (the two lower() calls dropped)
find_records_by_name_cased(d, name) ==
  SelectSeq(Values(d), LAMBDA record : Contains(name, record.name))

\* AddressBook.find_records_by_name
find_records_by_name(d, name) ==
  SelectSeq(Values(d), LAMBDA record : Contains(lower(name), lower(record.name)))

\* AddressBook.find_records_by_phone
find_records_by_phone(d, phone) ==
  SelectSeq(Values(d),
            LAMBDA record : \E i \in 1..Len(record.phones) :
                               Contains(phone, str(record.phones[i])))

---------------------------------------------------------------------------
(* pickle: the dict as a flat sequence of tokens, each token a str *)

RECURSIVE ItoS(_)
ItoS(n) == IF n < 10 THEN <<DigitChars[n + 1]>>
           ELSE Append(ItoS(n \div 10), DigitChars[(n % 10) + 1])

RECURSIVE StoI(_)
StoI(s) == IF Len(s) = 0 THEN 0
           ELSE 10 * StoI(SubSeq(s, 1, Len(s) - 1)) + DigitVal(s[Len(s)])

TokNone == <<"N">>

TokStr == <<"S">>

TokDate == <<"D">>

TokStop == <<".">>

Absent == << <<"<absent>">> >>

dump_value(v) == IF v = None THEN <<TokNone>> ELSE <<TokStr, v>>

RECURSIVE dump_phones(_)
dump_phones(ps) ==
  IF ps = <<>> THEN <<>> ELSE dump_value(Head(ps)) \o dump_phones(Tail(ps))

dump_birthday(b) ==
  CASE b.kind = "none" -> <<TokNone>>
    [] b.kind = "str" -> <<TokStr, b.chars>>
    [] OTHER -> <<TokDate, ItoS(b.y), ItoS(b.m), ItoS(b.d)>>

dump_record(r) ==
  <<r.name, ItoS(Len(r.phones))>> \o dump_phones(r.phones) \o dump_birthday(r.birthday)

RECURSIVE dump_entries(_)
dump_entries(d) ==
  IF d = <<>> THEN <<>>
  ELSE <<Head(d).key>> \o dump_record(Head(d).value) \o dump_entries(Tail(d))

\* pickle.dump(self.data, file)
pickle_dumps(d) == <<ItoS(Len(d))>> \o dump_entries(d) \o <<TokStop>>

\* the n values that start at token i, and the token after them
RECURSIVE load_values(_, _, _)
load_values(b, i, n) ==
  IF n = 0 THEN [vals |-> <<>>, next |-> i]
  ELSE LET one == IF b[i] = TokNone THEN [v |-> None, next |-> i + 1]
                  ELSE [v |-> b[i + 1], next |-> i + 2]
           rest == load_values(b, one.next, n - 1)
       IN [vals |-> <<one.v>> \o rest.vals, next |-> rest.next]

load_birthday(b, i) ==
  CASE b[i] = TokNone -> [v |-> NoneB, next |-> i + 1]
    [] b[i] = TokStr -> [v |-> BStr(b[i + 1]), next |-> i + 2]
    [] OTHER -> [v |-> BDate(StoI(b[i + 1]), StoI(b[i + 2]), StoI(b[i + 3])), next |-> i + 4]

RECURSIVE load_entries(_, _, _)
load_entries(b, i, n) ==
  IF n = 0 THEN <<>>
  ELSE LET ps == load_values(b, i + 3, StoI(b[i + 2]))
           bd == load_birthday(b, ps.next)
           r == [name |-> b[i + 1], phones |-> ps.vals, birthday |-> bd.v]
       IN <<[key |-> b[i], value |-> r]>> \o load_entries(b, bd.next, n - 1)

\* pickle.load(file)
pickle_loads(b) == load_entries(b, 2, StoI(b[1]))

\* save_to_file opening the file in append mode: a later load reads the first pickle
save_to_file_append(files, filename, d) ==
  [files EXCEPT ![filename] = IF @ = Absent THEN pickle_dumps(d) ELSE @ \o pickle_dumps(d)]

\* AddressBook.save_to_file: open(filename, 'wb') truncates, dump writes the whole dict
save_to_file(files, filename, d) == [files EXCEPT ![filename] = pickle_dumps(d)]

\* load_from_file whose except clause leaves self.data as it was
load_from_file_keep(files, filename, d) ==
  IF files[filename] = Absent THEN d ELSE pickle_loads(files[filename])

\* AddressBook.load_from_file: the new self.data, d being the old one;
\* open() of an absent file raises FileNotFoundError, which is caught
load_from_file(files, filename, d) ==
  IF files[filename] = Absent THEN <<>> ELSE pickle_loads(files[filename])

---------------------------------------------------------------------------
(* Pagination *)

\* an __iter__ that keeps the cursor of the pagination under way
iter_resume(index) == index

\* AddressBook.__iter__: the _iter_index it sets, whatever the cursor was
iter_start(index) == 0

\* AddressBook.__iter__: the _keys snapshot
iter_keys(d) == Keys(d)

\* self._keys[self._iter_index:self._iter_index+self._page_size]
keys_slice(ks, index, size) ==
  SubSeq(ks, index + 1, IF index + size < Len(ks) THEN index + size ELSE Len(ks))

\* a __next__ whose exhaustion test is > instead of >=
next_page_gt(d, set, ks, index, size) ==
  IF ~set THEN [outcome |-> "AttributeError", records |-> <<>>, index |-> index]
  ELSE IF index > Len(ks)
       THEN [outcome |-> "StopIteration", records |-> <<>>, index |-> index]
  ELSE [outcome |-> "ok",
        records |-> [i \in 1..Len(keys_slice(ks, index, size)) |->
                       Lookup(d, keys_slice(ks, index, size)[i])],
        index |-> index + size]

\* AddressBook.__next__: the outcome, the page and the cursor afterwards
next_page(d, set, ks, index, size) ==
  IF ~set THEN [outcome |-> "AttributeError", records |-> <<>>, index |-> index]
  ELSE IF index >= Len(ks)
       THEN [outcome |-> "StopIteration", records |-> <<>>, index |-> index]
  ELSE LET sl == keys_slice(ks, index, size)
       IN IF \E i \in 1..Len(sl) : ~HasKey(d, sl[i])
          THEN [outcome |-> "KeyError", records |-> <<>>, index |-> index]
          ELSE [outcome |-> "ok",
                records |-> [i \in 1..Len(sl) |-> Lookup(d, sl[i])],
                index |-> index + size]

---------------------------------------------------------------------------
(* Inputs *)

P1111111111 == Rep("1", PhoneLen)

P2222222222 == Rep("2", PhoneLen)

P12345 == <<"1", "2", "3", "4", "5">>

P12345abcde == <<"1", "2", "3", "4", "5", "a", "b", "c", "d", "e">>

P11111111111 == Rep("1", PhoneLen + 1)

\* ten superscript twos
PSuper2 == Rep("<U+00B2>", PhoneLen)

\* what a caller passes as a phone: valid, too short, empty, non-digit, too long,
\* ten digits that are no decimals, None
PhoneInputs ==
  {P1111111111, P2222222222, P12345, <<>>, P12345abcde, P11111111111, PSuper2, None}

OldPhoneInputs == {P1111111111, P12345, NoneStr}

NameAl == <<"A", "l">>

RecordNames == {NameAl}

D19900510 == <<"1", "9", "9", "0", "-", "0", "5", "-", "1", "0">>

D1990_5_1 == <<"1", "9", "9", "0", "-", "5", "-", "1">>

D10051990 == <<"1", "0", ".", "0", "5", ".", "1", "9", "9", "0">>

D19900230 == <<"1", "9", "9", "0", "-", "0", "2", "-", "3", "0">>

D19920229 == <<"1", "9", "9", "2", "-", "0", "2", "-", "2", "9">>

\* 1990-05-13 with a fullwidth nine in the year and an Arabic-Indic three in the day
D19900513wide == <<"1", "9", "<U+FF19>", "0", "-", "0", "5", "-", "1", "<U+0663>">>

BirthdayInputs ==
  {NoneB, BStr(<<>>), BStr(D19900510), BStr(D1990_5_1), BStr(D10051990),
   BStr(D19900230), BStr(D19920229), BStr(D19900513wide), BDate(1990, 5, 10),
   BDate(1992, 2, 29)}

Day(y, m, d) == [y |-> y, m |-> m, d |-> d]

\* values of datetime.date.today()
Todays == {Day(2023, 1, 1), Day(2023, 5, 10), Day(2023, 5, 11), Day(2023, 12, 31),
           Day(2024, 2, 29)}

NoDay == Day(0, 0, 0)

P1234567890 == <<"1", "2", "3", "4", "5", "6", "7", "8", "9", "0">>

P9999999999 == Rep("9", PhoneLen)

NameBob == <<"B", "o", "b">>

BookNames == {NameAl, NameBob}

\* record.add_phone(p) for each p of `more`, in order
RECURSIVE add_phones(_, _)
add_phones(r, more) ==
  IF more = <<>> THEN r ELSE add_phones(add_phone(r, Head(more)), Tail(more))

\* Record(name, phone, birthday) followed by add_phone of each of `more`
BuildRecord(name, phone, birthday, more) ==
  add_phones(Record_init(name, phone, birthday), more)

\* constructor arguments <<phone, birthday, more>> of the records put in the book
BookRecordArgs ==
  {<<None, NoneB, <<>>>>,
   <<P1111111111, BStr(D19900510), <<>>>>,
   <<P12345, BStr(<<>>), <<>>>>,
   <<P1234567890, BDate(1990, 5, 10), <<None, P2222222222>>>>}

NameQueries == {<<>>, <<"A", "L">>, <<"o", "B">>, <<"x">>}

PhoneQueries == {P1111111111, P9999999999, P12345, <<"o", "n">>}

Paths == {"address_book.pkl", "other.pkl"}

\* the file the program saves to
SavePaths == {"address_book.pkl"}

Consumers == {1, 2}

---------------------------------------------------------------------------
(* The record operations: a caller holding one Record *)

Call(op, outcome, phone, old, bday, today, pre, isNone, days) ==
  [op |-> op, outcome |-> outcome, phone |-> phone, old |-> old, bday |-> bday,
   today |-> today, pre |-> pre, isNone |-> isNone, days |-> days]

BookIdle ==
  /\ data = <<>>
  /\ fs = [p \in Paths |-> Absent]
  /\ saved = [p \in Paths |-> [d |-> <<>>, replaced |-> FALSE]]
  /\ iter_set = FALSE
  /\ iter_index = 0
  /\ page_size = 0
  /\ keys = <<>>
  /\ got = [c \in Consumers |-> <<>>]
  /\ done = [c \in Consumers |-> FALSE]
  /\ begun = [c \in Consumers |-> FALSE]
  /\ stale = [c \in Consumers |-> FALSE]
  /\ mixed = [c \in Consumers |-> FALSE]
  /\ mutated = FALSE
  /\ handed = 0

bookVars == <<data, fs, iter_set, iter_index, page_size, keys, saved,
              got, done, begun, stale, mixed, mutated, handed>>

InitRecord ==
  /\ \E name \in RecordNames : rec = Record_init(name, None, NoneB)
  /\ last = Call("Record", "ok", None, <<>>, NoneB, NoDay, rec, FALSE, -1)
  /\ BookIdle

\* Record(name, phone, birthday)
NewRecord(name, phone, birthday) ==
  /\ rec' = Record_init(name, phone, birthday)
  /\ last' = Call("Record", "ok", phone, <<>>, birthday, NoDay, rec', FALSE, -1)
  /\ UNCHANGED bookVars

\* rec.add_phone(phone)
DoAddPhone(phone) ==
  /\ Len(rec.phones) < MaxPhones
  /\ rec' = add_phone(rec, phone)
  /\ last' = Call("add_phone", "ok", phone, <<>>, NoneB, NoDay, rec, FALSE, -1)
  /\ UNCHANGED bookVars

\* rec.remove_phone(phone)
DoRemovePhone(phone) ==
  /\ rec' = remove_phone(rec, phone)
  /\ last' = Call("remove_phone", "ok", phone, <<>>, NoneB, NoDay, rec, FALSE, -1)
  /\ UNCHANGED bookVars

\* rec.edit_phone(old_phone, new_phone)
DoEditPhone(old_phone, new_phone) ==
  LET e == edit_phone(rec, old_phone, new_phone)
  IN /\ rec' = [rec EXCEPT !.phones = e.phones]
     /\ last' = Call("edit_phone", e.outcome, new_phone, old_phone, NoneB, NoDay, rec,
                     FALSE, -1)
     /\ UNCHANGED bookVars

\* rec.birthday.value = birthday (the property setter calls set_value)
DoSetBirthday(birthday) ==
  LET o == Birthday_validate(birthday)
  IN /\ rec' = [rec EXCEPT !.birthday = set_value(o, @, birthday)]
     /\ last' = Call("set_birthday", o, None, <<>>, birthday, NoDay, rec, FALSE, -1)
     /\ UNCHANGED bookVars

\* rec.phones[i].value = new_value (the property setter calls set_value): entry i
\* alone is assigned; `old` records what that entry rendered as before
DoSetPhone(i, new_value) ==
  LET o == Phone_validate(new_value)
  IN /\ i \in 1..Len(rec.phones)
     /\ rec' = [rec EXCEPT !.phones[i] = set_value(o, @, new_value)]
     /\ last' = Call("set_phone", o, new_value, str(rec.phones[i]), NoneB, NoDay, rec,
                     FALSE, -1)
     /\ UNCHANGED bookVars

\* rec.days_to_birthday() on a day `today`
DoDaysToBirthday(today) ==
  LET r == days_to_birthday(rec, today)
  IN /\ rec' = rec
     /\ last' = Call("days_to_birthday", r.outcome, None, <<>>, rec.birthday, today, rec,
                     r.isNone, r.days)
     /\ UNCHANGED bookVars

NextRecord ==
  \/ \E name \in RecordNames, phone \in PhoneInputs, birthday \in BirthdayInputs :
       NewRecord(name, phone, birthday)
  \/ \E phone \in PhoneInputs : DoAddPhone(phone)
  \/ \E phone \in PhoneInputs \cup {NoneStr} : DoRemovePhone(phone)
  \/ \E old_phone \in OldPhoneInputs, new_phone \in PhoneInputs :
       DoEditPhone(old_phone, new_phone)
  \/ \E birthday \in BirthdayInputs : DoSetBirthday(birthday)
  \/ \E i \in 1..MaxPhones, new_value \in PhoneInputs : DoSetPhone(i, new_value)
  \/ \E today \in Todays : DoDaysToBirthday(today)

SpecRecord == InitRecord /\ [][NextRecord]_vars

---------------------------------------------------------------------------
(* What the specification calls valid *)

\* a string of exactly 10 decimal digits
ValidPhone(v) ==
  v # None /\ Len(v) = PhoneLen /\ \A i \in 1..Len(v) : v[i] \in Digits

\* a str of the exact shape YYYY-MM-DD naming a calendar date
ValidYMD(b) ==
  /\ b.kind = "str"
  /\ Len(b.chars) = 10
  /\ \A i \in {1, 2, 3, 4, 6, 7, 9, 10} : b.chars[i] \in Digits
  /\ b.chars[5] = "-" /\ b.chars[8] = "-"
  /\ DateOk(Year4(SubSeq(b.chars, 1, 4)), Num(SubSeq(b.chars, 6, 7)),
            Num(SubSeq(b.chars, 9, 10)))

MonthOf(b) == Num(SubSeq(b.chars, 6, 7))

DayOf(b) == Num(SubSeq(b.chars, 9, 10))

\* days from today to the next occurrence of month m, day d
NextOccurrence(today, m, d) ==
  LET now == toordinal(today.y, today.m, today.d)
  IN IF m > today.m \/ (m = today.m /\ d >= today.d)
     THEN toordinal(today.y, m, d) - now
     ELSE toordinal(today.y + 1, m, d) - now

---------------------------------------------------------------------------
(* Claims about the record operations, under SpecRecord *)

\* C1: in every reachable state each Phone value of the record is a string of
\* exactly 10 decimal digits and the Birthday value is absent or a valid
\* YYYY-MM-DD date, because construction validates as assignment does.
C1_FieldsAlwaysValid ==
  /\ \A i \in 1..Len(rec.phones) : ValidPhone(rec.phones[i])
  /\ rec.birthday = NoneB \/ ValidYMD(rec.birthday)

\* C2: add_phone of a string that is not exactly 10 digits fails with a
\* validation error and leaves the phone sequence unchanged; add_phone of a
\* 10-digit string appends exactly one entry at the end.
C2_AddPhoneValidates ==
  last.op = "add_phone" =>
    IF ValidPhone(last.phone)
    THEN last.outcome = "ok" /\ rec.phones = Append(last.pre.phones, last.phone)
    ELSE last.outcome = "ValueError" /\ rec.phones = last.pre.phones

\* C3: edit_phone(old, new): with no entry rendering equal to old it is a
\* silent no-op; with a match and a malformed new (None, wrong length,
\* non-digit) it fails with a validation error and changes no entry; with a
\* match and a valid new every matching entry becomes new, the rest stay.
C3_EditPhone ==
  last.op = "edit_phone" =>
    LET pre == last.pre.phones
        hit(i) == str(pre[i]) = last.old
    IN IF ~\E i \in 1..Len(pre) : hit(i)
       THEN last.outcome = "ok" /\ rec.phones = pre
       ELSE IF ~ValidPhone(last.phone)
            THEN last.outcome = "ValueError" /\ rec.phones = pre
            ELSE /\ last.outcome = "ok"
                 /\ rec.phones = [i \in 1..Len(pre) |-> IF hit(i) THEN last.phone ELSE pre[i]]

\* C7: days_to_birthday returns None when the record has no birthday; with a
\* valid YYYY-MM-DD birthday other than Feb 29 it never fails and returns the
\* non-negative number of days from today to the next occurrence of the
\* stored month and day (0 on the birthday itself).
C7_DaysToBirthday ==
  last.op = "days_to_birthday" =>
    /\ last.bday = NoneB => last.outcome = "ok" /\ last.isNone
    /\ (ValidYMD(last.bday) /\ ~(MonthOf(last.bday) = 2 /\ DayOf(last.bday) = 29)) =>
         /\ last.outcome = "ok"
         /\ ~last.isNone
         /\ last.days >= 0
         /\ last.days = NextOccurrence(last.today, MonthOf(last.bday), DayOf(last.bday))

---------------------------------------------------------------------------
(* The collection operations: add, remove, search, save, load *)

NoRecord == Record_init(<<>>, None, NoneB)

BookCall(op, outcome, name, record, path, result, pre) ==
  [op |-> op, outcome |-> outcome, name |-> name, record |-> record, path |-> path,
   result |-> result, pre |-> pre]

pageVars == <<iter_set, iter_index, page_size, keys, got, done, begun, stale, mixed,
              mutated, handed>>

InitBook ==
  /\ BookIdle
  /\ rec = NoRecord
  /\ last = BookCall("AddressBook", "ok", <<>>, NoRecord, "", <<>>, <<>>)

\* address_book.add_record(Record(name, phone, birthday)), more phones added before
AddRecord(name, phone, birthday, more) ==
  LET record == BuildRecord(name, phone, birthday, more)
  IN /\ data' = add_record(data, record)
     /\ last' = BookCall("add_record", "ok", name, record, "", <<>>, data)
     /\ UNCHANGED <<rec, fs, saved, pageVars>>

\* address_book.remove_record(name)
RemoveRecord(name) ==
  /\ data' = remove_record(data, name)
  /\ last' = BookCall("remove_record", "ok", name, NoRecord, "", <<>>, data)
  /\ UNCHANGED <<rec, fs, saved, pageVars>>

\* address_book.find_records_by_name(name)
FindByName(name) ==
  /\ last' = BookCall("find_records_by_name", "ok", name, NoRecord, "",
                      find_records_by_name(data, name), data)
  /\ UNCHANGED <<rec, data, fs, saved, pageVars>>

\* address_book.find_records_by_phone(phone)
FindByPhone(phone) ==
  /\ last' = BookCall("find_records_by_phone", "ok", phone, NoRecord, "",
                      find_records_by_phone(data, phone), data)
  /\ UNCHANGED <<rec, data, fs, saved, pageVars>>

\* address_book.save_to_file(filename)
SaveToFile(filename) ==
  /\ fs' = save_to_file(fs, filename, data)
  /\ saved' = [saved EXCEPT ![filename] =
                 [d |-> data, replaced |-> fs[filename] # Absent /\ @.d # data]]
  /\ last' = BookCall("save_to_file", "ok", <<>>, NoRecord, filename, <<>>, data)
  /\ UNCHANGED <<rec, data, pageVars>>

\* address_book.load_from_file(filename)
LoadFromFile(filename) ==
  /\ data' = load_from_file(fs, filename, data)
  /\ last' = BookCall("load_from_file", "ok", <<>>, NoRecord, filename, <<>>, data)
  /\ UNCHANGED <<rec, fs, saved, pageVars>>

NextBook ==
  \/ \E name \in BookNames, a \in BookRecordArgs : AddRecord(name, a[1], a[2], a[3])
  \/ \E name \in BookNames : RemoveRecord(name)
  \/ \E name \in NameQueries : FindByName(name)
  \/ \E phone \in PhoneQueries : FindByPhone(phone)
  \/ \E filename \in SavePaths : SaveToFile(filename)
  \/ \E filename \in Paths : LoadFromFile(filename)

SpecBook == InitBook /\ [][NextBook]_vars

---------------------------------------------------------------------------
(* Claims about the collection, under SpecBook *)

\* the rendered phone strings of a record
Rendered(r) == {str(r.phones[i]) : i \in 1..Len(r.phones)}

\* the (name, phone sequence, birthday) tuples of a dict
Tuples(d) == {<<d[i].value.name, d[i].value.phones, d[i].value.birthday>> : i \in 1..Len(d)}

InSeq(x, s) == \E i \in 1..Len(s) : s[i] = x

\* C4: add_record overwrites by name with full replacement: afterwards exactly
\* one entry is under the record's name and it is the record added, entries
\* under other names are unchanged, a search for a phone that only the
\* replaced record had returns nothing and a search for a phone of the added
\* record returns it.
C4_AddOverwrites ==
  last.op = "add_record" =>
    LET r2 == last.record
        pre == last.pre
    IN /\ Cardinality({i \in 1..Len(data) : data[i].key = r2.name}) = 1
       /\ Lookup(data, r2.name) = r2
       /\ \A i \in 1..Len(pre) : pre[i].key # r2.name => InSeq(pre[i], data)
       /\ \A i \in 1..Len(data) : data[i].key # r2.name => InSeq(data[i], pre)
       /\ \A q \in Rendered(r2) : InSeq(r2, find_records_by_phone(data, q))
       /\ HasKey(pre, r2.name) =>
            \A q \in Rendered(Lookup(pre, r2.name)) :
               (\A i \in 1..Len(data) : q \notin Rendered(data[i].value)) =>
                  find_records_by_phone(data, q) = <<>>

\* C6: save_to_file then load_from_file of the same path leaves the collection
\* with exactly the (name, phones, birthday) tuples of the collection most
\* recently saved there, whatever the collection held before the load and
\* whatever the path held before the save.
C6_SaveLoadRoundTrip ==
  (last.op = "load_from_file" /\ fs[last.path] # Absent) =>
     /\ Tuples(data) = Tuples(saved[last.path].d)
     /\ Len(data) = Len(saved[last.path].d)

C6_Witness ==
  /\ last.op = "load_from_file"
  /\ fs[last.path] # Absent
  /\ saved[last.path].replaced
  /\ Len(data) = 2
  /\ last.pre # data
  /\ \E i \in 1..Len(data) : data[i].value.birthday.kind = "date"
  /\ \E i \in 1..Len(data) : InSeq(None, data[i].value.phones)

EqIgnoreCase(a, b) ==
  a = b \/ {a, b} \in {{"A", "a"}, {"B", "b"}, {"L", "l"}, {"O", "o"}}

\* q occurs in n as a substring, ignoring case
MatchesName(q, n) ==
  \E i \in 0..(Len(n) - Len(q)) : \A j \in 1..Len(q) : EqIgnoreCase(q[j], n[i + j])

\* q occurs as a substring of a rendered phone of r
MatchesPhone(q, r) ==
  \E s \in Rendered(r) :
     \E i \in 0..(Len(s) - Len(q)) : SubSeq(s, i + 1, i + Len(q)) = q

\* C8: search never fails, leaves the collection unchanged and returns, in the
\* collection's key order, exactly the records that match: by name, q is a
\* substring of the name ignoring case; by phone, q is a substring of a
\* rendered phone. Nothing matching gives the empty sequence.
C8_SearchExact ==
  /\ last.op = "find_records_by_name" =>
       /\ last.outcome = "ok"
       /\ data = last.pre
       /\ last.result = SelectSeq(Values(data), LAMBDA r : MatchesName(last.name, r.name))
  /\ last.op = "find_records_by_phone" =>
       /\ last.outcome = "ok"
       /\ data = last.pre
       /\ last.result = SelectSeq(Values(data), LAMBDA r : MatchesPhone(last.name, r))

C8_Witness ==
  /\ last.op = "find_records_by_name"
  /\ last.name = <<"A", "L">>
  /\ Len(data) = 2
  /\ Len(last.result) = 1
  /\ last.result[1].name = NameAl

\* C9: load_from_file of a path that does not exist returns normally and
\* leaves the collection empty, whatever it held before; load_from_file of an
\* existing saved file leaves only entries of that file (no merge with the
\* entries held before).
C9_LoadMissingOrReplace ==
  last.op = "load_from_file" =>
     /\ last.outcome = "ok"
     /\ IF fs[last.path] = Absent
        THEN data = <<>>
        ELSE \A i \in 1..Len(data) : InSeq(data[i], saved[last.path].d)

C9_Witness ==
  /\ last.op = "load_from_file"
  /\ fs[last.path] = Absent
  /\ Len(last.pre) = 2
  /\ data = <<>>

---------------------------------------------------------------------------
(* Pagination: consumers sharing the one AddressBook iterator *)

PageName(i) == <<"n", DigitChars[(i \div 10) + 1], DigitChars[(i % 10) + 1]>>

\* the book after add_record of n records named n01, n02, ...
RECURSIVE PageBook(_)
PageBook(n) ==
  IF n = 0 THEN <<>>
  ELSE add_record(PageBook(n - 1), Record_init(PageName(n), None, NoneB))

RECURSIVE Flatten(_)
Flatten(pages) == IF pages = <<>> THEN <<>> ELSE Head(pages) \o Flatten(Tail(pages))

\* consumer x has received some pages, but not yet one for every record
PartWay(x) ==
  begun[x] /\ ~done[x] /\ got[x] # <<>> /\ Len(Flatten(got[x])) < Len(data)

PageCall(op, consumer, outcome, records, handedBefore, wasDone) ==
  [op |-> op, consumer |-> consumer, outcome |-> outcome, records |-> records,
   handedBefore |-> handedBefore, wasDone |-> wasDone]

InitPage ==
  /\ \E n \in 0..MaxRecords : data = PageBook(n)
  /\ rec = NoRecord
  /\ fs = [p \in Paths |-> Absent]
  /\ saved = [p \in Paths |-> [d |-> <<>>, replaced |-> FALSE]]
  /\ iter_set = FALSE
  /\ iter_index = 0
  /\ page_size = 0
  /\ keys = <<>>
  /\ got = [c \in Consumers |-> <<>>]
  /\ done = [c \in Consumers |-> FALSE]
  /\ begun = [c \in Consumers |-> FALSE]
  /\ stale = [c \in Consumers |-> FALSE]
  /\ mixed = [c \in Consumers |-> FALSE]
  /\ mutated = FALSE
  /\ handed = 0
  /\ last = PageCall("AddressBook", 0, "ok", <<>>, 0, FALSE)

\* consumer c calls iter(address_book)
Iter(c) ==
  /\ iter_set' = TRUE
  /\ iter_index' = iter_start(iter_index)
  /\ page_size' = DefaultPageSize
  /\ keys' = iter_keys(data)
  /\ got' = [got EXCEPT ![c] = <<>>]
  /\ done' = [done EXCEPT ![c] = FALSE]
  /\ begun' = [begun EXCEPT ![c] = TRUE]
  /\ stale' = [x \in Consumers |-> IF x = c THEN FALSE ELSE PartWay(x)]
  /\ mixed' = [x \in Consumers |-> x # c]
  /\ handed' = 0
  /\ last' = PageCall("iter", c, "ok", <<>>, handed, done[c])
  /\ UNCHANGED <<rec, data, fs, saved, mutated>>

\* consumer c calls next() on the iterator it was given, which is the book itself
NextPage(c) ==
  LET r == next_page(data, iter_set, keys, iter_index, page_size)
  IN /\ begun[c] \/ ~iter_set
     /\ r.outcome = "ok" => Len(got[c]) < MaxGot
     /\ iter_index' = r.index
     /\ got' = [got EXCEPT ![c] = IF r.outcome = "ok" THEN Append(@, r.records) ELSE @]
     /\ done' = [done EXCEPT ![c] = @ \/ r.outcome = "StopIteration"]
     /\ mixed' = [x \in Consumers |-> IF x = c THEN mixed[x] ELSE TRUE]
     /\ handed' = IF r.outcome = "ok" THEN handed + 1 ELSE handed
     /\ last' = PageCall("next", c, r.outcome, r.records, handed, done[c])
     /\ UNCHANGED <<rec, data, fs, saved, iter_set, page_size, keys, begun, stale, mutated>>

\* address_book.remove_record(name) while paginations may be under way
PageRemove(name) ==
  /\ ~mutated
  /\ HasKey(data, name)
  /\ data' = remove_record(data, name)
  /\ mutated' = TRUE
  /\ last' = PageCall("remove_record", 0, "ok", <<>>, handed, FALSE)
  /\ UNCHANGED <<rec, fs, saved, iter_set, iter_index, page_size, keys, got, done, begun,
                 stale, mixed, handed>>

\* address_book.add_record(Record(name)) while paginations may be under way
PageAdd(name) ==
  /\ ~mutated
  /\ data' = add_record(data, Record_init(name, None, NoneB))
  /\ mutated' = TRUE
  /\ last' = PageCall("add_record", 0, "ok", <<>>, handed, FALSE)
  /\ UNCHANGED <<rec, fs, saved, iter_set, iter_index, page_size, keys, got, done, begun,
                 stale, mixed, handed>>

NextPaging ==
  \/ \E c \in Consumers : Iter(c)
  \/ \E c \in Consumers : NextPage(c)
  \/ \E name \in {PageName(1)} : PageRemove(name)
  \/ \E name \in {PageName(0)} : PageAdd(name)

SpecPage == InitPage /\ [][NextPaging]_vars

---------------------------------------------------------------------------
(* Claims about pagination, under SpecPage *)

\* the number of pages of n records
NumPages(n) == (n + DefaultPageSize - 1) \div DefaultPageSize

\* the j-th page of the records recs
Chunk(recs, j) ==
  SubSeq(recs, DefaultPageSize * (j - 1) + 1,
         IF DefaultPageSize * j < Len(recs) THEN DefaultPageSize * j ELSE Len(recs))

\* the pages hold every record of the collection exactly once
Covers(pages) ==
  LET flat == Flatten(pages)
  IN \A i \in 1..Len(data) :
        Cardinality({j \in 1..Len(flat) : flat[j] = data[i].value}) = 1

\* C5: a pagination of n records that no other pagination and no mutation
\* disturbs yields the pages of the records in key order, 5 records in every
\* page but the last and 1 to 5 in the last, signals exhaustion after exactly
\* ceil(n/5) pages (at once for an empty collection), every record then having
\* appeared exactly once, and signals exhaustion again on every further next.
C5_PagesExact ==
  \A c \in Consumers :
    (begun[c] /\ ~mixed[c] /\ ~mutated) =>
      LET recs == Values(data)
          total == NumPages(Len(recs))
          k == Len(got[c])
      IN /\ k <= total
         /\ \A j \in 1..k :
              /\ got[c][j] = Chunk(recs, j)
              /\ j < total => Len(got[c][j]) = 5
              /\ j = total => Len(got[c][j]) \in 1..5
         /\ done[c] => k = total /\ Flatten(got[c]) = recs
         /\ (last.op = "next" /\ last.consumer = c) =>
              /\ last.outcome \in {"ok", "StopIteration"}
              /\ last.wasDone => last.outcome = "StopIteration"

C5_Witness ==
  /\ Len(data) = 12
  /\ begun[1] /\ ~mixed[1] /\ ~mutated
  /\ done[1]
  /\ Len(got[1]) = 3
  /\ <<Len(got[1][1]), Len(got[1][2]), Len(got[1][3])>> = <<5, 5, 2>>
  /\ last.op = "next" /\ last.consumer = 1 /\ last.wasDone

\* C10: the collection holds one cursor shared by all paginations: iter resets
\* it and snapshots the keys again, so a pagination begun while another is
\* part-way gets the first page from its first next; every next, through
\* whichever pagination has begun, returns the page at the shared cursor (the page after
\* those handed out since the latest iter) or signals exhaustion when there is
\* none; and a pagination interrupted part-way and the one that interrupted it
\* do not both receive every record exactly once.
C10_SharedCursor ==
  LET recs == Values(data)
  IN /\ last.op = "iter" => iter_index = 0 /\ keys = Keys(data) /\ page_size = 5
     /\ \A c \in Consumers, o \in Consumers :
          (c # o /\ stale[o] /\ begun[c] /\ ~mixed[c] /\ ~mutated /\ got[c] # <<>>) =>
             got[c][1] = Chunk(recs, 1)
     /\ (last.op = "next" /\ iter_set /\ ~mutated) =>
          IF last.handedBefore < NumPages(Len(recs))
          THEN last.outcome = "ok" /\ last.records = Chunk(recs, last.handedBefore + 1)
          ELSE last.outcome = "StopIteration"
     /\ \A c \in Consumers, o \in Consumers :
          (c # o /\ stale[c] /\ begun[o] /\ ~mutated) => ~(Covers(got[c]) /\ Covers(got[o]))

C10_Witness ==
  /\ Len(data) = 12
  /\ ~mutated
  /\ stale[1]
  /\ last.op = "next" /\ last.consumer = 1 /\ last.outcome = "ok"
  /\ Len(got[1]) = 3
  /\ got[1][1] = Chunk(Values(data), 1)
  /\ got[1][2] = Chunk(Values(data), 2)
  /\ got[1][3] = Chunk(Values(data), 2)
  /\ Len(got[2]) = 1

===========================================================================
